---- MODULE Spec2Model ----
(***************************************************************************)
(* PartialHashIndexImpl<DataType>                                          *)
(* (src/lib/storage/index/partial_hash/partial_hash_index_impl.cpp).       *)
(*                                                                         *)
(* The index maps column values to the RowIDs that hold them, for an       *)
(* adjustable subset of the chunks of one table.  The model keeps the hash *)
(* container as the sequence of its entries in the container's native      *)
(* iteration order, so that an iterator is a position in that sequence.    *)
(***************************************************************************)
EXTENDS FiniteSets, Integers, Sequences, TLC

\* ---------------------------------------------------------------- bounds
\* Largest number of chunks of a generated table.
MaxChunks == 2
\* Largest length of the argument vector of one add / remove call.
MaxArgLen == 2
\* Values queried through equals / not_equals are 1..MaxValue; the segments
\* below hold 1..3 only, so MaxValue is a value no segment holds.
MaxValue == 4

\* ------------------------------------------------------- table and inputs
\* One position of a segment, as segment_iterate hands it to its functor.
Cell(v) == [is_null |-> FALSE, value |-> v]
NullCell == [is_null |-> TRUE, value |-> 0]

\* The scenario table: three chunks holding {1,2,null}, {3,1,2}, {null,3,1}.
ScenarioTable ==
  << << Cell(1), Cell(2), NullCell >>,
     << Cell(3), Cell(1), Cell(2) >>,
     << NullCell, Cell(3), Cell(1) >> >>

\* Segment contents the other tables are built from (the indexed column of
\* one chunk each): an empty chunk, a chunk repeating one value, a chunk of
\* NULLs only, and a chunk with values and a NULL.
SegmentPool ==
  << << >>,
     << Cell(1), Cell(1) >>,
     << NullCell >>,
     << Cell(1), Cell(2), NullCell >> >>

\* Strictly increasing selections of k pool entries.
Selections(k) ==
  { s \in [1..k -> 1..Len(SegmentPool)] : \A i, j \in 1..k : i < j => s[i] < s[j] }

\* The tables: the scenario table, and every table of 1..MaxChunks distinct
\* pool segments.  A table is the sequence of its chunks' segments; chunk
\* ids are 0-based.
Tables ==
  {ScenarioTable} \cup
  UNION { { [i \in 1..k |-> SegmentPool[s[i]]] : s \in Selections(k) } : k \in 1..MaxChunks }

ChunkIDs(t) == 0..(Len(t) - 1)

\* Argument vectors of add / remove: chunk ids of the table, repeats allowed.
ChunkIDVectors(t) == UNION { [1..n -> ChunkIDs(t)] : n \in 0..MaxArgLen }

Values == 1..MaxValue

\* The DataType the index is instantiated with.
DataType == "int32_t"

\* AllTypeVariant: a value together with the type it holds.
Variant(type, value) == [type |-> type, value |-> value]

\* The variants a caller may pass to a query: every value of DataType, and
\* one pmr_string (its content plays no part).
AllTypeVariants ==
  { Variant(DataType, v) : v \in Values } \cup { Variant("pmr_string", 0) }

VARIABLES
  table,               \* the table's chunks (fixed after Init)
  _indexed_chunk_ids,  \* std::set<ChunkID>
  _map,                \* value -> std::vector<RowID>, in iteration order
  _null_values,        \* bool -> std::vector<RowID>, in iteration order
  call,                \* the last add/remove: [op, arg, ret, aborted, follows]
  before,              \* the index as it was when the last add/remove started
  no_column,           \* the chunks whose handle lacks the column column_id
  query,               \* the last query since then: [op, value, ret, aborted]
  \* ColumnMaterializer::materialize
  input,               \* the column column_id of the input table, chunk by chunk
  _sort,               \* whether the materialized segments are sorted
  _materialize_null,   \* whether the positions of NULL values are collected
  output,              \* MaterializedSegmentList: one pointer per chunk
  null_rows,           \* the PosList shared by all jobs: [slots, size]
  subsamples,          \* std::vector<Subsample>, one per scheduled job
  jobs,                \* the scheduled jobs: [pc, offset, end]
  loop_chunk_id,       \* the chunk_id of materialize's scheduling loop
  gathered_samples,    \* the samples materialize returns
  pc                   \* where materialize is

materializer_vars ==
  << input, _sort, _materialize_null, output, null_rows, subsamples, jobs,
     loop_chunk_id, gathered_samples, pc >>

index_vars ==
  << table, _indexed_chunk_ids, _map, _null_values, call, before, no_column, query >>

vars == << index_vars, materializer_vars >>

\* No materialize call is in progress.
MaterializerIdle ==
  /\ input = << >>
  /\ _sort = FALSE
  /\ _materialize_null = FALSE
  /\ output = << >>
  /\ null_rows = [slots |-> << >>, size |-> 0]
  /\ subsamples = << >>
  /\ jobs = << >>
  /\ loop_chunk_id = 0
  /\ gathered_samples = << >>
  /\ pc = "idle"

\* ------------------------------------------------------------ primitives
RowID(chunk_id, chunk_offset) == [chunk_id |-> chunk_id, chunk_offset |-> chunk_offset]

\* The index's three members as one value.
Index(ids, m, nulls) == [ids |-> ids, map |-> m, nulls |-> nulls]

EmptyIndex == Index({}, << >>, << >>)

\* map.end(): the position one past the last entry.
end(m) == Len(m) + 1

\* map.find(key): the position of the entry with that key, or end().
find(m, key) ==
  IF \E i \in 1..Len(m) : m[i].first = key
    THEN CHOOSE i \in 1..Len(m) : m[i].first = key
    ELSE end(m)

contains(m, key) == find(m, key) # end(m)

\* if (!m.contains(key)) m[key] = {};  m[key].push_back(row_id);
\* A new entry is put last here; the action that calls add places it.
\* Mutant: the RowID is inserted at the front of the key's vector.
push_front(m, key, row_id) ==
  LET m1 == IF ~contains(m, key) THEN Append(m, [first |-> key, second |-> << >>]) ELSE m
  IN  [m1 EXCEPT ![find(m1, key)].second = << row_id >> \o @]

push_back(m, key, row_id) ==
  LET m1 == IF ~contains(m, key) THEN Append(m, [first |-> key, second |-> << >>]) ELSE m
  IN  [m1 EXCEPT ![find(m1, key)].second = Append(@, row_id)]

\* chunk.second->get_segment(column_id)
get_segment(t, chunk_id) == t[chunk_id + 1]

\* Whether get_segment(column_id) finds the column in the chunk; it fails
\* fatally if not.
has_column(absent, chunk_id) == chunk_id \notin absent

\* ------------------------------------------------------------------- add
\* Mutant: the guard against indexing a chunk twice is missing.
already_indexed_never(idx, chunk_id) == FALSE

\* if (_indexed_chunk_ids.contains(chunk.first)) continue;
already_indexed(idx, chunk_id) == chunk_id \in idx.ids

\* The functor of segment_iterate, applied to the position at offset i - 1.
index_position(idx, chunk_id, position, i) ==
  LET row_id == RowID(chunk_id, i - 1)
  IN  IF position.is_null
        THEN [idx EXCEPT !.nulls = push_back(@, TRUE, row_id)]
        ELSE [idx EXCEPT !.map = push_back(@, position.value, row_id)]

\* segment_iterate: every position of the segment, in storage order, from i on.
RECURSIVE segment_iterate(_, _, _, _)
segment_iterate(idx, chunk_id, segment, i) ==
  IF i > Len(segment)
    THEN idx
    ELSE segment_iterate(index_position(idx, chunk_id, segment[i], i), chunk_id, segment, i + 1)

\* One iteration of add's loop over chunks_to_index: the index after it, and
\* whether get_segment aborted it.  The chunk id is inserted before the
\* segment is fetched.
add_chunk(idx, t, absent, chunk_id) ==
  IF already_indexed(idx, chunk_id)
    THEN [index |-> idx, aborted |-> FALSE]
    ELSE LET inserted == [idx EXCEPT !.ids = @ \cup {chunk_id}]
         IN  IF has_column(absent, chunk_id)
               THEN [index |-> segment_iterate(inserted, chunk_id, get_segment(t, chunk_id), 1),
                     aborted |-> FALSE]
               ELSE [index |-> inserted, aborted |-> TRUE]

\* add's loop, from element k of chunks_to_index on; an abort ends it.
RECURSIVE add_loop(_, _, _, _, _)
add_loop(idx, t, absent, chunks_to_index, k) ==
  IF k > Len(chunks_to_index)
    THEN [index |-> idx, aborted |-> FALSE]
    ELSE LET iteration == add_chunk(idx, t, absent, chunks_to_index[k])
         IN  IF iteration.aborted
               THEN iteration
               ELSE add_loop(iteration.index, t, absent, chunks_to_index, k + 1)

\* Mutant: add returns the size of the indexed set, not its growth.
add_result_size(size_before, idx) == Cardinality(idx.ids)

\* return _indexed_chunk_ids.size() - size_before;
add_result(size_before, idx) == Cardinality(idx.ids) - size_before

\* Every order the entries of m may be iterated in.  Inserting a key into
\* a hash container may rehash it, which leaves the iteration order of all
\* entries unspecified.
Rehashed(m) ==
  { [i \in 1..Len(m) |-> m[p[i]]] :
      p \in { q \in [1..Len(m) -> 1..Len(m)] : \A i, j \in 1..Len(m) : q[i] = q[j] => i = j } }

\* The container after add's insertions: some order if a key was inserted,
\* the same order if not.
Inserted(old, new) == IF Len(new) > Len(old) THEN Rehashed(new) ELSE {new}

\* ---------------------------------------------------------------- remove
\* Mutant: the predicate of remove_if is inverted.
erase_values_inverted(values, chunk_id) ==
  SelectSeq(values, LAMBDA row_id : row_id.chunk_id = chunk_id)

\* Mutant: the predicate of remove_if compares with <= instead of ==.
erase_values_le(values, chunk_id) ==
  SelectSeq(values, LAMBDA row_id : row_id.chunk_id > chunk_id)

\* Mutant: only the first RowID of the chunk is erased from a vector.
erase_values_first_only(values, chunk_id) ==
  IF \E i \in 1..Len(values) : values[i].chunk_id = chunk_id
    THEN LET i == CHOOSE i \in 1..Len(values) :
                    /\ values[i].chunk_id = chunk_id
                    /\ \A j \in 1..(i - 1) : values[j].chunk_id # chunk_id
         IN  SubSeq(values, 1, i - 1) \o SubSeq(values, i + 1, Len(values))
    ELSE values

\* values.erase(std::remove_if(..., row_id.chunk_id == chunk_id), values.end())
erase_values(values, chunk_id) == SelectSeq(values, LAMBDA row_id : row_id.chunk_id # chunk_id)

\* Mutant: remove leaves the NULL positions alone.
erase_nulls_none(nulls, chunk_id) == nulls

\* nulls.erase(std::remove_if(..., row_id.chunk_id == chunk_id), nulls.end())
erase_nulls(nulls, chunk_id) == SelectSeq(nulls, LAMBDA row_id : row_id.chunk_id # chunk_id)

\* Mutant: an emptied vector's entry stays in the map.
erase_if_empty_never(m, map_iter) == [m |-> m, map_iter |-> map_iter + 1]

\* if (values.empty()) map_iter = _map.erase(map_iter); else ++map_iter;
erase_if_empty(m, map_iter) ==
  IF m[map_iter].second = << >>
    THEN [m |-> SubSeq(m, 1, map_iter - 1) \o SubSeq(m, map_iter + 1, Len(m)), map_iter |-> map_iter]
    ELSE [m |-> m, map_iter |-> map_iter + 1]

\* while (map_iter != _map.end()) { ... }
RECURSIVE erase_from_map(_, _, _)
erase_from_map(m, chunk_id, map_iter) ==
  IF map_iter = end(m)
    THEN m
    ELSE LET m1 == [m EXCEPT ![map_iter].second = erase_values(@, chunk_id)]
             nxt == erase_if_empty(m1, map_iter)
         IN  erase_from_map(nxt.m, chunk_id, nxt.map_iter)

\* auto& nulls = _null_values[true];  (operator[] inserts the key if absent)
null_values_at_true(nulls) ==
  IF contains(nulls, TRUE) THEN nulls ELSE Append(nulls, [first |-> TRUE, second |-> << >>])

\* Mutant: remove does not skip chunk ids that are not indexed.
not_indexed_never(idx, chunk_id) == FALSE

\* if (!_indexed_chunk_ids.contains(chunk_id)) continue;
not_indexed(idx, chunk_id) == chunk_id \notin idx.ids

\* Mutant: remove erases the chunk's RowIDs but not its id.
remove_chunk_keep_id(idx, chunk_id) ==
  IF not_indexed(idx, chunk_id)
    THEN idx
    ELSE LET nulls == null_values_at_true(idx.nulls)
         IN  Index(idx.ids,
                   erase_from_map(idx.map, chunk_id, 1),
                   [nulls EXCEPT ![find(nulls, TRUE)].second = erase_nulls(@, chunk_id)])

\* One iteration of remove's loop over chunks_to_remove.
remove_chunk(idx, chunk_id) ==
  IF not_indexed(idx, chunk_id)
    THEN idx
    ELSE LET nulls == null_values_at_true(idx.nulls)
         IN  Index(idx.ids \ {chunk_id},
                   erase_from_map(idx.map, chunk_id, 1),
                   [nulls EXCEPT ![find(nulls, TRUE)].second = erase_nulls(@, chunk_id)])

\* remove's loop, from element k of chunks_to_remove on.
RECURSIVE remove_loop(_, _, _)
remove_loop(idx, chunks_to_remove, k) ==
  IF k > Len(chunks_to_remove)
    THEN idx
    ELSE remove_loop(remove_chunk(idx, chunks_to_remove[k]), chunks_to_remove, k + 1)

\* The number of times remove's loop, from element k of chunks_to_remove on,
\* walks all of _map and the NULL vector: once per iteration that is not
\* skipped.
RECURSIVE remove_passes(_, _, _)
remove_passes(idx, chunks_to_remove, k) ==
  IF k > Len(chunks_to_remove)
    THEN 0
    ELSE (IF not_indexed(idx, chunks_to_remove[k]) THEN 0 ELSE 1)
           + remove_passes(remove_chunk(idx, chunks_to_remove[k]), chunks_to_remove, k + 1)

\* return size_before - _indexed_chunk_ids.size();
remove_result(size_before, idx) == size_before - Cardinality(idx.ids)

\* --------------------------------------------------------------- queries
cbegin(m) == 1

cend(m) == end(m)

\* Mutant: null_cbegin returns the end iterator.
null_cbegin_end(nulls) == end(nulls)

null_cbegin(nulls) == 1

null_cend(nulls) == end(nulls)

\* The RowIDs an index iterator yields when advanced from position first up
\* to position last of container m: the entries' vectors, one after another.
RECURSIVE Range(_, _, _)
Range(m, first, last) ==
  IF first = last THEN << >> ELSE m[first].second \o Range(m, first + 1, last)

\* equals(value): the iterator pair (begin, end) of the value's entry.
equals(m, value) ==
  LET begin == find(m, value)
  IN  IF begin = end(m) THEN << cend(m), cend(m) >> ELSE << begin, begin + 1 >>

\* Mutant: eq_end is not advanced past the value's entry.
not_equals_no_advance(m, value) ==
  << << cbegin(m), find(m, value) >>, << find(m, value), cend(m) >> >>

\* not_equals(value): (cbegin -> eq_begin) + (eq_end -> cend)
not_equals(m, value) ==
  LET eq_begin == find(m, value)
      eq_end == IF eq_begin # cend(m) THEN eq_begin + 1 ELSE eq_begin
  IN  << << cbegin(m), eq_begin >>, << eq_end, cend(m) >> >>

get_indexed_chunk_ids(idx) == idx.ids

\* Mutant: the variant's content is taken without looking at its type.
boost_get_unchecked(value) == [threw |-> FALSE, result |-> value.value]

\* boost::get<DataType>(value): the value held, or boost::bad_get thrown if
\* the variant holds another type.
boost_get(value) ==
  IF value.type = DataType
    THEN [threw |-> FALSE, result |-> value.value]
    ELSE [threw |-> TRUE, result |-> 0]

\* std::distance(first, last) on index iterators: the number of RowIDs the
\* walk from first to last yields.
distance(m, first, last) == Len(Range(m, first, last))

\* The sizes memory_consumption adds up, as an LP64 build has them.
\* sizeof(std::set<ChunkID>)
sizeof_set == 48
\* sizeof(ChunkID)
sizeof_ChunkID == 4
\* sizeof(_map)
sizeof_map == 40
\* sizeof(_null_values)
sizeof_null_values == 40
\* the estimated size of one hash
hash_size == 8
\* sizeof(std::vector<RowID>)
sizeof_vector == 24
\* sizeof(RowID)
sizeof_RowID == 8

\* Mutant: the bytes of the NULL RowIDs are subtracted instead of added.
memory_consumption_sign(idx) ==
  (sizeof_set + sizeof_ChunkID * Cardinality(idx.ids))
  + sizeof_map
  + (hash_size + sizeof_vector) * Len(idx.map)
  + sizeof_RowID * distance(idx.map, cbegin(idx.map), cend(idx.map))
  + sizeof_null_values
  + (hash_size + sizeof_vector) * Len(idx.nulls)
  - sizeof_RowID * distance(idx.nulls, null_cbegin(idx.nulls), null_cend(idx.nulls))

\* Mutant: the RowIDs of the buckets are counted as _map.size().
memory_consumption_map_size(idx) ==
  (sizeof_set + sizeof_ChunkID * Cardinality(idx.ids))
  + sizeof_map
  + (hash_size + sizeof_vector) * Len(idx.map)
  + sizeof_RowID * Len(idx.map)
  + sizeof_null_values
  + (hash_size + sizeof_vector) * Len(idx.nulls)
  + sizeof_RowID * distance(idx.nulls, null_cbegin(idx.nulls), null_cend(idx.nulls))

\* size_t memory_consumption() const
memory_consumption(idx) ==
  (sizeof_set + sizeof_ChunkID * Cardinality(idx.ids))
  + sizeof_map
  + (hash_size + sizeof_vector) * Len(idx.map)
  + sizeof_RowID * distance(idx.map, cbegin(idx.map), cend(idx.map))
  + sizeof_null_values
  + (hash_size + sizeof_vector) * Len(idx.nulls)
  + sizeof_RowID * distance(idx.nulls, null_cbegin(idx.nulls), null_cend(idx.nulls))

\* ------------------------------------------------------- the state machine
This == Index(_indexed_chunk_ids, _map, _null_values)

ToSet(s) == { s[i] : i \in 1..Len(s) }

\* How an add of chunks_to_index relates to the call before it: the op of
\* that call if it named the same set of chunk ids (for a remove: and all of
\* them were indexed when it started), "other" if not.
Follows(chunks_to_index) ==
  IF /\ ToSet(chunks_to_index) = ToSet(call.arg)
     /\ call.op = "remove" => ToSet(call.arg) \subseteq before.ids
    THEN call.op
    ELSE "other"

\* No query was made since the last add/remove.
NoQuery == [op |-> "none"]

\* The constructor: an empty index, then add(chunks_to_index, column_id).  A
\* constructor that aborts leaves no index behind.
PartialHashIndexImpl ==
  /\ \E chunks_to_index \in ChunkIDVectors(table) :
       LET added == add_loop(EmptyIndex, table, no_column, chunks_to_index, 1)
           idx == added.index
       IN  /\ ~added.aborted
           /\ _indexed_chunk_ids = idx.ids
           /\ _map \in Inserted(<< >>, idx.map)
           /\ _null_values = idx.nulls
           /\ call = [op |-> "PartialHashIndexImpl", arg |-> chunks_to_index,
                      ret |-> add_result(0, idx), aborted |-> FALSE,
                      follows |-> "other"]
  /\ before = EmptyIndex
  /\ query = NoQuery
  /\ MaterializerIdle

\* Every chunk of the table has the indexed column.
Init ==
  /\ table \in Tables
  /\ no_column = {}
  /\ PartialHashIndexImpl

\* size_t add(chunks_to_index, column_id); an aborted add returns nothing.
add(chunks_to_index) ==
  LET added == add_loop(This, table, no_column, chunks_to_index, 1)
      idx == added.index
  IN  /\ _indexed_chunk_ids' = idx.ids
      /\ _map' \in Inserted(_map, idx.map)
      /\ _null_values' = idx.nulls
      /\ call' = [op |-> "add", arg |-> chunks_to_index,
                  ret |-> IF added.aborted
                            THEN 0
                            ELSE add_result(Cardinality(_indexed_chunk_ids), idx),
                  aborted |-> added.aborted,
                  follows |-> Follows(chunks_to_index)]
      /\ before' = This
      /\ query' = NoQuery
      /\ UNCHANGED << table, no_column, materializer_vars >>

\* size_t remove(chunks_to_remove)
remove(chunks_to_remove) ==
  LET idx == remove_loop(This, chunks_to_remove, 1)
  IN  /\ _indexed_chunk_ids' = idx.ids
      /\ _map' = idx.map
      /\ _null_values' = idx.nulls
      /\ call' = [op |-> "remove", arg |-> chunks_to_remove,
                  ret |-> remove_result(Cardinality(_indexed_chunk_ids), idx),
                  aborted |-> FALSE, follows |-> "other"]
      /\ before' = This
      /\ query' = NoQuery
      /\ UNCHANGED << table, no_column, materializer_vars >>

Next ==
  \/ \E chunks_to_index \in ChunkIDVectors(table) : add(chunks_to_index)
  \/ \E chunks_to_remove \in ChunkIDVectors(table) : remove(chunks_to_remove)

Spec == Init /\ [][Next]_vars

\* ------------------------------------------- queries and fatal failures
\* IteratorPair equals(const AllTypeVariant& value) const, called: the pair
\* it returns, or nothing if boost::get aborted it.
call_equals(value) ==
  LET got == boost_get(value)
  IN  /\ query' = [op |-> "equals", value |-> value,
                   ret |-> IF got.threw THEN << >> ELSE equals(_map, got.result),
                   aborted |-> got.threw]
      /\ UNCHANGED << table, _indexed_chunk_ids, _map, _null_values, call, before,
                      no_column, materializer_vars >>

\* IteratorRangePair not_equals(const AllTypeVariant& value) const, called.
call_not_equals(value) ==
  LET got == boost_get(value)
  IN  /\ query' = [op |-> "not_equals", value |-> value,
                   ret |-> IF got.threw THEN << >> ELSE not_equals(_map, got.result),
                   aborted |-> got.threw]
      /\ UNCHANGED << table, _indexed_chunk_ids, _map, _null_values, call, before,
                      no_column, materializer_vars >>

\* The first two chunks of the scenario's table.
QueriedTable == SubSeq(ScenarioTable, 1, 2)

\* An index on a table all of whose chunks have the column, and its queries.
InitQueries ==
  /\ table = QueriedTable
  /\ no_column = {}
  /\ PartialHashIndexImpl

NextQueries ==
  \/ \E chunks_to_index \in ChunkIDVectors(table) : add(chunks_to_index)
  \/ \E chunks_to_remove \in ChunkIDVectors(table) : remove(chunks_to_remove)
  \/ \E value \in AllTypeVariants : call_equals(value)
  \/ \E value \in AllTypeVariants : call_not_equals(value)

SpecQueries == InitQueries /\ [][NextQueries]_vars

\* An index on a table one chunk of which lacks the column.
InitAbort ==
  /\ table = QueriedTable
  /\ no_column \in { {chunk_id} : chunk_id \in ChunkIDs(table) }
  /\ PartialHashIndexImpl

SpecAbort == InitAbort /\ [][Next]_vars

\* ==================================================== ColumnMaterializer
\* The largest target chunk size the input table is built with.
MaxChunkSize == 3

\* const ChunkOffset samples_per_chunk = 10;
samples_per_chunk == 10

min(a, b) == IF a < b THEN a ELSE b

max(a, b) == IF a > b THEN a ELSE b

\* The columns that are materialized: one with NULLs, one without.
ColumnWithNulls == << NullCell, Cell(2), NullCell, NullCell >>

ColumnWithoutNulls == << Cell(1), Cell(3), Cell(1), Cell(2) >>

Columns == { ColumnWithNulls, ColumnWithoutNulls }

\* The column as a table stores it with the target chunk size size: full
\* chunks, then the rest.
Chunked(column, size) ==
  [ c \in 1..((Len(column) + size - 1) \div size) |->
      SubSeq(column, (c - 1) * size + 1, min(c * size, Len(column))) ]

\* The number of rows of a chunk that holds more rows than samples are taken.
LongChunkSize == 21

\* A chunk of LongChunkSize rows without NULLs, stored in descending order.
LongSegment == [ i \in 1..LongChunkSize |-> Cell(LongChunkSize + 1 - i) ]

\* A table of a long chunk, a chunk without rows, a chunk of one NULL, and
\* a chunk of a NULL and a value.
LongInput == << LongSegment, << >>, << NullCell >>, << NullCell, Cell(5) >> >>

Inputs ==
  { Chunked(column, size) : column \in Columns, size \in 1..MaxChunkSize }
    \cup { LongInput }

\* input->chunk_count()
chunk_count(t) == Len(t)

\* An element of output that no job has assigned yet.
nullptr == [assigned |-> FALSE, segment |-> << >>]

\* Mutant: no segment is allocated for an empty output.
make_shared_unless_empty(segment) ==
  IF segment = << >> THEN nullptr ELSE [assigned |-> TRUE, segment |-> segment]

\* std::make_shared<MaterializedSegment<T>>(std::move(output))
make_shared(segment) == [assigned |-> TRUE, segment |-> segment]

MaterializedValue(row_id, value) == [row_id |-> row_id, value |-> value]

\* Subsample(sample_count)
Subsample(sample_count) == [samples_to_collect |-> sample_count, samples |-> << >>]

\* The elements of the PosList: its first size slots.
PosList(rows) == SubSeq(rows.slots, 1, rows.size)

\* Mutant: the position at offset 0 is not materialized.
materialized_values_skip_first(segment, c, i) ==
  LET RECURSIVE rest(_)
      rest(j) ==
        IF j > Len(segment)
          THEN << >>
          ELSE IF segment[j].is_null \/ j = 1
                 THEN rest(j + 1)
                 ELSE << MaterializedValue(RowID(c, j - 1), segment[j].value) >> \o rest(j + 1)
  IN  rest(i)

\* Mutant: a NULL position is dropped only if NULL positions are collected,
\* and is materialized like a value if not.
materialized_values_else_branch(segment, c, i) ==
  LET RECURSIVE rest(_)
      rest(j) ==
        IF j > Len(segment)
          THEN << >>
          ELSE IF segment[j].is_null /\ _materialize_null
                 THEN rest(j + 1)
                 ELSE << MaterializedValue(RowID(c, j - 1), segment[j].value) >> \o rest(j + 1)
  IN  rest(i)

\* Mutant: the offset of a RowID is the number of values materialized before
\* it, not the offset of the position.
materialized_values_dense(segment, c, i) ==
  LET RECURSIVE rest(_, _)
      rest(j, n) ==
        IF j > Len(segment)
          THEN << >>
          ELSE IF segment[j].is_null
                 THEN rest(j + 1, n)
                 ELSE << MaterializedValue(RowID(c, n), segment[j].value) >> \o rest(j + 1, n + 1)
  IN  rest(i, 0)

\* What the functor of segment_iterate appends to the job's own output for
\* the positions from offset i - 1 on: one MaterializedValue per position that
\* is not NULL, in storage order.
RECURSIVE materialized_values(_, _, _)
materialized_values(segment, c, i) ==
  IF i > Len(segment)
    THEN << >>
    ELSE IF segment[i].is_null
           THEN materialized_values(segment, c, i + 1)
           ELSE << MaterializedValue(RowID(c, i - 1), segment[i].value) >>
                  \o materialized_values(segment, c, i + 1)

\* Mutant: the segment is left in storage order.
std_sort_none(segment) == { segment }

\* std::sort by left.value < right.value: some order of the elements in
\* which the values do not decrease; elements of equal value in any order.
std_sort(segment) ==
  LET RECURSIVE orders(_)
      orders(elements) ==
        IF elements = {}
          THEN { << >> }
          ELSE UNION { { << least >> \o rest : rest \in orders(elements \ {least}) } :
                       least \in { e \in elements :
                                     \A other \in elements : ~(other.value < e.value) } }
  IN  orders(ToSet(segment))

\* Mutant: the sampling loop ends one sample early.
_gather_samples_from_segment_one_less(segment, samples_to_collect) ==
  IF Len(segment) > 0 /\ samples_to_collect > 0
    THEN LET step_width == Len(segment) \div max(1, samples_to_collect)
         IN  [ n \in 1..(samples_to_collect - 1) |-> segment[(n - 1) * step_width + 1].value ]
    ELSE << >>

\* Mutant: step_width is rounded up.
sample_positions_ceil(segment_size, samples_to_collect) ==
  IF segment_size > 0 /\ samples_to_collect > 0
    THEN LET step_width == (segment_size + max(1, samples_to_collect) - 1)
                             \div max(1, samples_to_collect)
         IN  [ sample_count \in 1..samples_to_collect |-> (sample_count - 1) * step_width ]
    ELSE << >>

\* The indices (from 0) at which _gather_samples_from_segment reads a segment
\* of segment_size entries, in the order it reads them.
sample_positions(segment_size, samples_to_collect) ==
  IF segment_size > 0 /\ samples_to_collect > 0
    THEN LET step_width == segment_size \div max(1, samples_to_collect)
         IN  [ sample_count \in 1..samples_to_collect |-> (sample_count - 1) * step_width ]
    ELSE << >>

\* _gather_samples_from_segment: the samples appended to subsample.samples.
_gather_samples_from_segment(segment, samples_to_collect) ==
  LET positions == sample_positions(Len(segment), samples_to_collect)
  IN  [ n \in 1..Len(positions) |-> segment[positions[n] + 1].value ]

\* The offset (from 1) of the first NULL position of segment at or after i;
\* Len(segment) + 1 if there is none.
RECURSIVE next_null(_, _)
next_null(segment, i) ==
  IF i > Len(segment) \/ segment[i].is_null THEN i ELSE next_null(segment, i + 1)

\* The next position for which the job calls null_rows_output->emplace_back.
next_emplace(job, segment) ==
  IF _materialize_null THEN next_null(segment, job.offset) ELSE Len(segment) + 1

\* materialize's loop: one Subsample and one scheduled job per chunk.
schedule ==
  /\ pc = "schedule"
  /\ loop_chunk_id < chunk_count(input)
  /\ subsamples' = Append(subsamples,
                          Subsample(min(samples_per_chunk, Len(get_segment(input, loop_chunk_id)))))
  /\ jobs' = Append(jobs, [pc |-> "segment_iterate", offset |-> 1, end |-> 0])
  /\ loop_chunk_id' = loop_chunk_id + 1
  /\ UNCHANGED << index_vars, input, _sort, _materialize_null, output, null_rows,
                  gathered_samples, pc >>

\* The job of chunk c reaches a NULL position and begins emplace_back on the
\* shared PosList: it reads where the list ends.  Nothing orders this with
\* the other jobs' accesses.
emplace_back_begin(c) ==
  LET job == jobs[c + 1]
      offset == next_emplace(job, get_segment(input, c))
  IN  /\ pc = "schedule"
      /\ c < Len(jobs)
      /\ job.pc = "segment_iterate"
      /\ offset <= Len(get_segment(input, c))
      /\ jobs' = [jobs EXCEPT ![c + 1] =
                    [pc |-> "emplace_back", offset |-> offset, end |-> null_rows.size]]
      /\ UNCHANGED << index_vars, input, _sort, _materialize_null, output, null_rows,
                      subsamples, loop_chunk_id, gathered_samples, pc >>

\* The job of chunk c completes emplace_back: it writes the RowID behind the
\* end it read and sets the end behind that RowID.
emplace_back_end(c) ==
  LET job == jobs[c + 1]
      row_id == RowID(c, job.offset - 1)
  IN  /\ pc = "schedule"
      /\ c < Len(jobs)
      /\ job.pc = "emplace_back"
      /\ null_rows' =
           [slots |-> IF job.end < Len(null_rows.slots)
                        THEN [null_rows.slots EXCEPT ![job.end + 1] = row_id]
                        ELSE Append(null_rows.slots, row_id),
            size |-> job.end + 1]
      /\ jobs' = [jobs EXCEPT ![c + 1] =
                    [pc |-> "segment_iterate", offset |-> job.offset + 1, end |-> 0]]
      /\ UNCHANGED << index_vars, input, _sort, _materialize_null, output, subsamples,
                      loop_chunk_id, gathered_samples, pc >>

\* Two jobs are inside emplace_back on the shared PosList at once, and one of
\* them reallocates the storage the other one uses: the process ends.
crash ==
  /\ pc = "schedule"
  /\ \E c, d \in 0..(Len(jobs) - 1) :
       c # d /\ jobs[c + 1].pc = "emplace_back" /\ jobs[d + 1].pc = "emplace_back"
  /\ pc' = "crashed"
  /\ UNCHANGED << index_vars, input, _sort, _materialize_null, output, null_rows,
                  subsamples, jobs, loop_chunk_id, gathered_samples >>

\* Mutant: every job assigns the first element of output.
finish_job_first_slot(c) ==
  LET job == jobs[c + 1]
      segment == get_segment(input, c)
  IN  /\ pc = "schedule"
      /\ c < Len(jobs)
      /\ job.pc = "segment_iterate"
      /\ next_emplace(job, segment) > Len(segment)
      /\ \E materialized \in IF _sort
                                THEN std_sort(materialized_values(segment, c, 1))
                                ELSE { materialized_values(segment, c, 1) } :
           /\ subsamples' = [subsamples EXCEPT ![c + 1].samples =
                               @ \o _gather_samples_from_segment(materialized,
                                       subsamples[c + 1].samples_to_collect)]
           /\ output' = [output EXCEPT ![1] = make_shared(materialized)]
      /\ jobs' = [jobs EXCEPT ![c + 1] = [pc |-> "done", offset |-> 0, end |-> 0]]
      /\ UNCHANGED << index_vars, input, _sort, _materialize_null, null_rows,
                      loop_chunk_id, gathered_samples, pc >>

\* The job of chunk c has iterated its segment: it sorts its output if
\* required, gathers the samples, and assigns (*output)[chunk_id].
finish_job(c) ==
  LET job == jobs[c + 1]
      segment == get_segment(input, c)
  IN  /\ pc = "schedule"
      /\ c < Len(jobs)
      /\ job.pc = "segment_iterate"
      /\ next_emplace(job, segment) > Len(segment)
      /\ \E materialized \in IF _sort
                                THEN std_sort(materialized_values(segment, c, 1))
                                ELSE { materialized_values(segment, c, 1) } :
           /\ subsamples' = [subsamples EXCEPT ![c + 1].samples =
                               @ \o _gather_samples_from_segment(materialized,
                                       subsamples[c + 1].samples_to_collect)]
           /\ output' = [output EXCEPT ![c + 1] = make_shared(materialized)]
      /\ jobs' = [jobs EXCEPT ![c + 1] = [pc |-> "done", offset |-> 0, end |-> 0]]
      /\ UNCHANGED << index_vars, input, _sort, _materialize_null, null_rows, loop_chunk_id,
                      gathered_samples, pc >>

\* Mutant: materialize goes on when all jobs are scheduled.
wait_for_tasks_scheduled ==
  /\ pc = "schedule"
  /\ loop_chunk_id = chunk_count(input)
  /\ pc' = "gather"
  /\ UNCHANGED << index_vars, input, _sort, _materialize_null, output, null_rows,
                  subsamples, jobs, loop_chunk_id, gathered_samples >>

\* CurrentScheduler::wait_for_tasks(jobs): blocks until every job is done.
wait_for_tasks ==
  /\ pc = "schedule"
  /\ loop_chunk_id = chunk_count(input)
  /\ \A c \in 0..(Len(jobs) - 1) : jobs[c + 1].pc = "done"
  /\ pc' = "gather"
  /\ UNCHANGED << index_vars, input, _sort, _materialize_null, output, null_rows,
                  subsamples, jobs, loop_chunk_id, gathered_samples >>

\* Mutant: the sample buffers are gathered from the last chunk to the first.
RECURSIVE gather_reversed(_, _)
gather_reversed(samples, k) ==
  IF k > Len(samples) THEN << >> ELSE gather_reversed(samples, k + 1) \o samples[k].samples

\* The samples of subsamples[k], subsamples[k + 1], ... one after another.
RECURSIVE gather(_, _)
gather(samples, k) ==
  IF k > Len(samples) THEN << >> ELSE samples[k].samples \o gather(samples, k + 1)

\* materialize gathers the samples and returns.
return ==
  /\ pc = "gather"
  /\ gathered_samples' = gather(subsamples, 1)
  /\ pc' = "returned"
  /\ UNCHANGED << index_vars, input, _sort, _materialize_null, output, null_rows,
                  subsamples, jobs, loop_chunk_id >>

\* ColumnMaterializer(sort, materialize_null), then materialize(input, column_id)
\* up to its loop.
InitMaterialize ==
  /\ table = << >>
  /\ _indexed_chunk_ids = {}
  /\ _map = << >>
  /\ _null_values = << >>
  /\ call = [op |-> "none"]
  /\ before = EmptyIndex
  /\ no_column = {}
  /\ query = NoQuery
  /\ input \in Inputs
  /\ _sort \in BOOLEAN
  /\ _materialize_null \in BOOLEAN
  /\ output = [ c \in 1..chunk_count(input) |-> nullptr ]
  /\ null_rows = [slots |-> << >>, size |-> 0]
  /\ subsamples = << >>
  /\ jobs = << >>
  /\ loop_chunk_id = 0
  /\ gathered_samples = << >>
  /\ pc = "schedule"

NextMaterialize ==
  \/ schedule
  \/ \E c \in 0..(chunk_count(input) - 1) : emplace_back_begin(c)
  \/ \E c \in 0..(chunk_count(input) - 1) : emplace_back_end(c)
  \/ \E c \in 0..(chunk_count(input) - 1) : finish_job(c)
  \/ crash
  \/ wait_for_tasks
  \/ return

SpecMaterialize == InitMaterialize /\ [][NextMaterialize]_vars

\* A step of materialize or of one of its jobs that the scheduler runs: every
\* step but the crash of two overlapping appends.
run_tasks ==
  \/ schedule
  \/ \E c \in 0..(chunk_count(input) - 1) : emplace_back_begin(c)
  \/ \E c \in 0..(chunk_count(input) - 1) : emplace_back_end(c)
  \/ \E c \in 0..(chunk_count(input) - 1) : finish_job(c)
  \/ wait_for_tasks
  \/ return

\* materialize under a scheduler that keeps running the calling thread and
\* the scheduled jobs while one of them can take a step.
SpecMaterializeFair ==
  InitMaterialize /\ [][NextMaterialize]_vars /\ WF_vars(run_tasks)

\* ---------------------------------------------------------------- claims
NoDuplicates(s) == \A i, j \in 1..Len(s) : s[i] = s[j] => i = j

\* The RowIDs of the rows of the chunks ids of table t whose cell is NULL.
NullRows(t, ids) ==
  UNION { { RowID(c, i - 1) : i \in { j \in 1..Len(get_segment(t, c)) : get_segment(t, c)[j].is_null } } :
          c \in ids }

\* The RowIDs of the rows of the chunks ids of table t whose cell holds v.
RowsWithValue(t, ids, v) ==
  UNION { { RowID(c, i - 1) :
              i \in { j \in 1..Len(get_segment(t, c)) :
                        /\ ~get_segment(t, c)[j].is_null
                        /\ get_segment(t, c)[j].value = v } } :
          c \in ids }

\* What iterating the pair returned by equals(v) yields.
EqualsRows(m, v) == Range(m, equals(m, v)[1], equals(m, v)[2])

\* What iterating null_cbegin .. null_cend yields.
NullPositions(nulls) == Range(nulls, null_cbegin(nulls), null_cend(nulls))

\* Every RowID held in a vector of container m.
StoredRows(m) == UNION { ToSet(m[i].second) : i \in 1..Len(m) }

\* C1: after any sequence of add and remove calls, equals(v) yields exactly
\* the RowIDs of the rows of the indexed chunks whose value is v, each once,
\* and no RowID of a chunk that is not in get_indexed_chunk_ids().
C1_EqualsExact ==
  \A v \in Values :
    LET rows == EqualsRows(_map, v)
    IN  /\ ToSet(rows) = RowsWithValue(table, get_indexed_chunk_ids(This), v)
        /\ NoDuplicates(rows)
        /\ \A i \in 1..Len(rows) : rows[i].chunk_id \in get_indexed_chunk_ids(This)

\* C1 witness: after a remove that took chunks out, equals(v) yields rows for
\* a value v that an unindexed chunk holds too.
C1_Witness ==
  /\ call.op = "remove"
  /\ call.ret > 0
  /\ \E v \in Values :
       /\ EqualsRows(_map, v) # << >>
       /\ RowsWithValue(table, ChunkIDs(table) \ _indexed_chunk_ids, v) # {}

\* C2: every RowID stored in a bucket or in the NULL list belongs to an
\* indexed chunk.
C2_StoredRowsAreIndexed ==
  \A row_id \in StoredRows(_map) \cup StoredRows(_null_values) :
    row_id.chunk_id \in _indexed_chunk_ids

\* C2 witness: a remove took out a chunk that had rows in a bucket and in the
\* NULL list, and rows of other chunks remain in both.
C2_Witness ==
  /\ call.op = "remove"
  /\ \E c \in before.ids \ _indexed_chunk_ids :
       /\ \E row_id \in StoredRows(before.map) : row_id.chunk_id = c
       /\ \E row_id \in StoredRows(before.nulls) : row_id.chunk_id = c
  /\ StoredRows(_map) # {}
  /\ StoredRows(_null_values) # {}

\* C3: no value bucket is present with an empty RowID vector.
C3_NoEmptyBucket == \A i \in 1..Len(_map) : _map[i].second # << >>

\* C3 witness: a remove deleted the last RowIDs of a bucket, and with them
\* the bucket, while other buckets remain.
C3_Witness ==
  /\ call.op = "remove"
  /\ Len(_map) < Len(before.map)
  /\ Len(_map) > 0

\* C4: the NULL list (what null_cbegin .. null_cend walks) holds exactly the
\* RowIDs of the NULL cells of the indexed chunks, each once; with the three
\* scenario chunks indexed these are (0,2) and (2,0).
C4_NullPositionsExact ==
  LET rows == NullPositions(_null_values)
  IN  /\ ToSet(rows) = NullRows(table, _indexed_chunk_ids)
      /\ NoDuplicates(rows)
      /\ (table = ScenarioTable /\ _indexed_chunk_ids = {0, 1, 2})
           => ToSet(rows) = { RowID(0, 2), RowID(2, 0) }

\* C4 witness: the three scenario chunks are indexed again after a chunk
\* with a NULL cell had been removed.
C4_Witness ==
  /\ table = ScenarioTable
  /\ _indexed_chunk_ids = {0, 1, 2}
  /\ call.op = "add"
  /\ 0 \notin before.ids
  /\ NullPositions(before.nulls) = << RowID(2, 0) >>

\* The calls that run add: add itself and the constructor.
AddOps == { "add", "PartialHashIndexImpl" }

\* What iterating the two pairs returned by not_equals(v) yields.
NotEqualsRows(m, v) ==
  << Range(m, not_equals(m, v)[1][1], not_equals(m, v)[1][2]),
     Range(m, not_equals(m, v)[2][1], not_equals(m, v)[2][2]) >>

\* The number of stored RowIDs (buckets and NULL list) of chunk c.
StoredCount(idx, c) ==
  LET all == Range(idx.map, cbegin(idx.map), cend(idx.map))
               \o Range(idx.nulls, null_cbegin(idx.nulls), null_cend(idx.nulls))
  IN  Cardinality({ i \in 1..Len(all) : all[i].chunk_id = c })

\* C5: a second add with the same chunk set returns 0 and leaves the indexed
\* chunk set, every bucket, the NULL list and so every equals / not_equals
\* result unchanged.
C5_AddIdempotent ==
  [][ ( /\ call.op \in AddOps
        /\ call'.op = "add"
        /\ ToSet(call'.arg) = ToSet(call.arg) )
      => ( /\ call'.ret = 0
           /\ _indexed_chunk_ids' = _indexed_chunk_ids
           /\ _map' = _map
           /\ _null_values' = _null_values
           /\ \A v \in Values :
                /\ EqualsRows(_map', v) = EqualsRows(_map, v)
                /\ NotEqualsRows(_map', v) = NotEqualsRows(_map, v) ) ]_vars

\* C5 witness: an add of several chunks right after an add (or the
\* constructor) with the same chunk set, on an index that holds values and
\* NULLs.
C5_Witness ==
  /\ call.op = "add"
  /\ call.follows \in AddOps
  /\ Cardinality(ToSet(call.arg)) > 1
  /\ StoredRows(_map) # {}
  /\ StoredRows(_null_values) # {}

\* C6: add returns the number of distinct chunk ids of its argument that were
\* not indexed before the call; an id that occurs more than once is scanned
\* and counted once; afterwards all ids of the argument are indexed.
C6_AddResult ==
  call.op \in AddOps =>
    /\ call.ret = Cardinality(ToSet(call.arg) \ before.ids)
    /\ ToSet(call.arg) \subseteq get_indexed_chunk_ids(This)
    /\ \A c \in ToSet(call.arg) \ before.ids :
         StoredCount(This, c) = Len(get_segment(table, c))

\* C6 witness: one add names an unindexed chunk with rows twice, next to the
\* chunks already indexed.
C6_Witness ==
  /\ call.op = "add"
  /\ before.ids # {}
  /\ \E i, j \in 1..Len(call.arg) :
       /\ i # j
       /\ call.arg[i] = call.arg[j]
       /\ call.arg[i] \notin before.ids
       /\ Len(get_segment(table, call.arg[i])) > 0

\* C7: remove returns the number of distinct chunk ids of its argument that
\* were indexed before the call; ids that are not indexed, also the repeat
\* of an id removed earlier in the same call, are ignored and change nothing.
C7_RemoveResult ==
  call.op = "remove" =>
    /\ call.ret = Cardinality(ToSet(call.arg) \cap before.ids)
    /\ get_indexed_chunk_ids(This) = before.ids \ ToSet(call.arg)
    /\ ToSet(call.arg) \cap before.ids = {} => This = before

\* C7 witness: one remove names an indexed chunk twice and returns 1.
C7_Witness ==
  /\ call.op = "remove"
  /\ \E i, j \in 1..Len(call.arg) :
       /\ i # j
       /\ call.arg[i] = call.arg[j]
       /\ call.arg[i] \in before.ids
  /\ call.ret = 1

\* C7 witness for the ignored ids: a remove naming only chunks that are not
\* indexed, on an index that holds values.
C7_WitnessIgnored ==
  /\ call.op = "remove"
  /\ call.arg # << >>
  /\ ToSet(call.arg) \cap before.ids = {}
  /\ before.map # << >>

\* The vector stored under key v in container m (empty if the key is absent).
Bucket(m, v) == IF contains(m, v) THEN m[find(m, v)].second ELSE << >>

\* C8: after remove(ids) no RowID of a chunk of ids is left in a bucket or
\* in the NULL list, and the RowIDs of every other chunk are exactly those
\* present before the call.
C8_RemoveFrame ==
  call.op = "remove" =>
    /\ \A row_id \in StoredRows(_map) \cup StoredRows(_null_values) :
         row_id.chunk_id \notin ToSet(call.arg)
    /\ \A v \in Values :
         /\ ToSet(Bucket(_map, v))
              = { row_id \in ToSet(Bucket(before.map, v)) : row_id.chunk_id \notin ToSet(call.arg) }
         /\ NoDuplicates(Bucket(_map, v))
    /\ ToSet(Bucket(_null_values, TRUE))
         = { row_id \in ToSet(Bucket(before.nulls, TRUE)) : row_id.chunk_id \notin ToSet(call.arg) }
    /\ NoDuplicates(Bucket(_null_values, TRUE))
    /\ ( /\ table = ScenarioTable
          /\ before.ids = {0, 1, 2}
          /\ ToSet(call.arg) = {1} )
        => /\ ToSet(EqualsRows(_map, 1)) = { RowID(0, 0), RowID(2, 2) }
           /\ ToSet(EqualsRows(_map, 3)) = { RowID(2, 1) }
           /\ get_indexed_chunk_ids(This) = {0, 2}

\* C8 witness: remove({1}) in the three-chunk scenario.
C8_Witness ==
  /\ table = ScenarioTable
  /\ call.op = "remove"
  /\ before.ids = {0, 1, 2}
  /\ ToSet(call.arg) = {1}

\* C9: remove of a set of indexed chunks followed by add of the same chunks
\* yields, for every value, the same set of RowIDs from equals as before the
\* remove, and the same indexed chunk set.
C9_RemoveThenAdd ==
  [][ ( /\ call.op = "remove"
        /\ ToSet(call.arg) \subseteq before.ids
        /\ call'.op = "add"
        /\ ToSet(call'.arg) = ToSet(call.arg) )
      => ( /\ _indexed_chunk_ids' = before.ids
           /\ \A v \in Values :
                ToSet(EqualsRows(_map', v)) = ToSet(EqualsRows(before.map, v)) ) ]_vars

\* C9 witness: right after a remove of the indexed scenario chunks 0 and 1,
\* an add of the same two chunks brought them back next to chunk 2.
C9_Witness ==
  /\ table = ScenarioTable
  /\ call.op = "add"
  /\ call.follows = "remove"
  /\ before.ids = {2}
  /\ ToSet(call.arg) = {0, 1}
  /\ call.ret = 2
  /\ before.nulls # << >>

\* C10: for every value v the two ranges of not_equals(v) are disjoint from
\* each other and from equals(v), and the three together cover the iteration
\* cbegin .. cend exactly once; for an absent v the first range is the whole
\* iteration and the second is empty.
C10_NotEqualsPartition ==
  \A v \in Values :
    LET all == Range(_map, cbegin(_map), cend(_map))
        eq == EqualsRows(_map, v)
        first == NotEqualsRows(_map, v)[1]
        second == NotEqualsRows(_map, v)[2]
        three == first \o eq \o second
    IN  /\ ToSet(first) \cap ToSet(second) = {}
        /\ ToSet(first) \cap ToSet(eq) = {}
        /\ ToSet(second) \cap ToSet(eq) = {}
        /\ Len(three) = Len(all)
        /\ \A row_id \in ToSet(all) \cup ToSet(three) :
             /\ Cardinality({ i \in 1..Len(three) : three[i] = row_id }) = 1
             /\ Cardinality({ i \in 1..Len(all) : all[i] = row_id }) = 1
        /\ ~contains(_map, v) => (first = all /\ second = << >> /\ eq = << >>)

\* C10 witness: three buckets, the queried value's bucket in the middle, so
\* that both ranges of not_equals are non-empty; the value MaxValue is absent.
C10_Witness ==
  /\ Len(_map) = 3
  /\ \E v \in Values :
       /\ find(_map, v) = 2
       /\ NotEqualsRows(_map, v)[1] # << >>
       /\ NotEqualsRows(_map, v)[2] # << >>
  /\ ~contains(_map, MaxValue)
  /\ call.op = "remove"

\* C11: get_indexed_chunk_ids() is the set of chunks added and not removed
\* since: the constructor indexes its chunks, add moves the chunks it names
\* to indexed, remove moves the chunks it names to unindexed, and a call
\* leaves the state of every chunk it does not name as it was.
C11_ChunkStateMachine ==
  /\ [](call.op = "PartialHashIndexImpl" => get_indexed_chunk_ids(This) = ToSet(call.arg))
  /\ [][ \A c \in ChunkIDs(table) :
           /\ (call'.op = "add" /\ c \in ToSet(call'.arg))
                => c \in get_indexed_chunk_ids(This')
           /\ (call'.op = "remove" /\ c \in ToSet(call'.arg))
                => c \notin get_indexed_chunk_ids(This')
           /\ c \notin ToSet(call'.arg)
                => (c \in get_indexed_chunk_ids(This') <=> c \in get_indexed_chunk_ids(This)) ]_vars

\* C11 witness: one remove names an indexed chunk (which leaves the set) and
\* an unindexed chunk (a no-op) while a third chunk stays indexed.
C11_Witness ==
  /\ call.op = "remove"
  /\ \E c \in ToSet(call.arg) : c \in before.ids
  /\ \E c \in ToSet(call.arg) : c \notin before.ids
  /\ _indexed_chunk_ids # {}

\* C14: memory_consumption() does not decrease over an add (or over the
\* constructor's add).
C14_MemoryMonotoneOverAdd ==
  call.op \in AddOps => memory_consumption(This) >= memory_consumption(before)

\* C14 witness: an add indexed a further chunk and memory_consumption() grew.
C14_Witness ==
  /\ call.op = "add"
  /\ call.ret > 0
  /\ before.ids # {}
  /\ memory_consumption(This) > memory_consumption(before)

\* What iterating cbegin .. cend yields.
AllRows(m) == Range(m, cbegin(m), cend(m))

\* The number of times row_id occurs in the sequence s.
Occurrences(s, row_id) == Cardinality({ i \in 1..Len(s) : s[i] = row_id })

\* The RowIDs of all rows of the chunks ids of table t.
ChunkRows(t, ids) ==
  UNION { { RowID(c, i - 1) : i \in 1..Len(get_segment(t, c)) } : c \in ids }

\* C15: iterating cbegin .. cend visits every RowID of the value buckets once
\* and no NULL RowID; iterating null_cbegin .. null_cend visits every NULL
\* RowID once and no bucket RowID; together they visit each row of each
\* indexed chunk once.
C15_IterationCoverage ==
  LET values == AllRows(_map)
      nulls == NullPositions(_null_values)
  IN  /\ ToSet(values) = StoredRows(_map)
      /\ \A row_id \in StoredRows(_map) : Occurrences(values, row_id) = 1
      /\ ToSet(values) \cap NullRows(table, _indexed_chunk_ids) = {}
      /\ ToSet(nulls) = StoredRows(_null_values)
      /\ \A row_id \in StoredRows(_null_values) : Occurrences(nulls, row_id) = 1
      /\ \A v \in Values : ToSet(nulls) \cap RowsWithValue(table, _indexed_chunk_ids, v) = {}
      /\ ToSet(values \o nulls) = ChunkRows(table, _indexed_chunk_ids)
      /\ NoDuplicates(values \o nulls)

\* C15 witness: chunks 0 and 2 of the scenario are left after a remove; both
\* iterations yield RowIDs.
C15_Witness ==
  /\ table = ScenarioTable
  /\ call.op = "remove"
  /\ _indexed_chunk_ids = {0, 2}
  /\ Len(AllRows(_map)) = 4
  /\ Len(NullPositions(_null_values)) = 2

\* The values the chunks ids of table t hold.
DistinctValues(t, ids) == { v \in Values : RowsWithValue(t, ids, v) # {} }

\* C17: memory_consumption() is a fixed base, plus sizeof(ChunkID) per indexed
\* chunk, plus a fixed overhead per value bucket, plus sizeof(RowID) per
\* bucket entry, plus the same overhead per entry of the NULL map and
\* sizeof(RowID) per NULL RowID.  Buckets and entries are counted on the
\* table: distinct values, non-NULL rows and NULL rows of the indexed chunks.
C17_MemoryFormula ==
  memory_consumption(This)
    = (sizeof_set + sizeof_map + sizeof_null_values)
      + sizeof_ChunkID * Cardinality(_indexed_chunk_ids)
      + (hash_size + sizeof_vector) * Cardinality(DistinctValues(table, _indexed_chunk_ids))
      + sizeof_RowID * ( Cardinality(ChunkRows(table, _indexed_chunk_ids))
                         - Cardinality(NullRows(table, _indexed_chunk_ids)) )
      + (hash_size + sizeof_vector) * Len(_null_values)
      + sizeof_RowID * Cardinality(NullRows(table, _indexed_chunk_ids))

\* C17 witness: after a remove the index holds several buckets, one of them
\* with more than one RowID, and NULL RowIDs.
C17_Witness ==
  /\ call.op = "remove"
  /\ call.ret > 0
  /\ Len(_map) > 1
  /\ \E i \in 1..Len(_map) : Len(_map[i].second) > 1
  /\ NullPositions(_null_values) # << >>

QueryOps == {"equals", "not_equals"}

\* The query q asked for a value of DataType that no indexed row holds.
AbsentValueQuery(q) ==
  /\ q.op \in QueryOps
  /\ q.value.type = DataType
  /\ ~contains(_map, q.value.value)

\* What iterating the range(s) returned to the query q yields.
QueryRows(q) ==
  IF q.op = "equals"
    THEN Range(_map, q.ret[1], q.ret[2])
    ELSE Range(_map, q.ret[1][1], q.ret[1][2]) \o Range(_map, q.ret[2][1], q.ret[2][2])

\* A remove that names only chunks that are not indexed, and an add that
\* names only chunks that are indexed, return 0 and leave the index as it was.
RemoveAddNoOps ==
  /\ (call.op = "remove" /\ ToSet(call.arg) \cap before.ids = {})
       => (~call.aborted /\ call.ret = 0 /\ This = before)
  /\ (call.op = "add" /\ ToSet(call.arg) \subseteq before.ids)
       => (~call.aborted /\ call.ret = 0 /\ This = before)

\* A query leaves the index as it was.
QueriesKeepState == [][query'.op \in QueryOps => This' = This]_vars

\* C12 as stated: equals and not_equals for a value absent from the index do
\* not fail and return an empty range; a remove of chunks never indexed and an
\* add of chunks already indexed do not fail and return 0; none of them
\* changes the index.
C12_EmptyResults ==
  /\ [](AbsentValueQuery(query) => (~query.aborted /\ QueryRows(query) = << >>))
  /\ []RemoveAddNoOps
  /\ QueriesKeepState

\* C12, amended: as stated, except that not_equals for an absent value
\* returns every RowID of the buckets (cbegin .. cend, then an empty range).
C12_ExpectedResults ==
  /\ [](AbsentValueQuery(query) =>
         /\ ~query.aborted
         /\ query.op = "equals" => QueryRows(query) = << >>
         /\ query.op = "not_equals" =>
              /\ QueryRows(query) = AllRows(_map)
              /\ query.ret[2][1] = query.ret[2][2])
  /\ []RemoveAddNoOps
  /\ QueriesKeepState

\* C12 witness: not_equals was asked for an absent value on an index that
\* holds RowIDs, after a remove that named only chunks that were not indexed.
C12_Witness ==
  /\ AbsentValueQuery(query)
  /\ query.op = "not_equals"
  /\ AllRows(_map) # << >>
  /\ call.op = "remove"
  /\ call.arg # << >>
  /\ ToSet(call.arg) \cap before.ids = {}

\* C13: every chunk id that get_indexed_chunk_ids() reports has all its rows
\* in the buckets or the NULL positions, also after an add that aborted on a
\* chunk without the column, which then is not reported as indexed.
C13_NoPartialAdd ==
  /\ \A c \in get_indexed_chunk_ids(This) :
       ChunkRows(table, {c}) \subseteq StoredRows(_map) \cup StoredRows(_null_values)
  /\ call.aborted => no_column \cap get_indexed_chunk_ids(This) = {}

\* C16: equals and not_equals with a value of another type than DataType
\* abort, return no range, and leave the index as it was.
C16_TypeMismatchAborts ==
  /\ []( (query.op \in QueryOps /\ query.value.type # DataType)
           => (query.aborted /\ query.ret = << >>) )
  /\ QueriesKeepState

\* C16 witness: not_equals with a pmr_string aborted on an index that holds
\* RowIDs.
C16_Witness ==
  /\ query.op = "not_equals"
  /\ query.value.type # DataType
  /\ query.aborted
  /\ AllRows(_map) # << >>

\* The chunks of the input.
InputChunks == 0..(chunk_count(input) - 1)

\* C18: with NULL collection enabled, when materialize returns the PosList
\* holds the RowID of every NULL cell of the column once and nothing else,
\* however the jobs interleave.
C18_NullRowsComplete ==
  (pc = "returned" /\ _materialize_null)
    => /\ ToSet(PosList(null_rows)) = NullRows(input, InputChunks)
       /\ NoDuplicates(PosList(null_rows))

\* The sum of the sizes of the segments of output, from element k on.
RECURSIVE MaterializedRowCount(_, _)
MaterializedRowCount(segments, k) ==
  IF k > Len(segments)
    THEN 0
    ELSE Len(segments[k].segment) + MaterializedRowCount(segments, k + 1)

\* C19: for an input without NULL cells, the sizes of the materialized
\* segments that materialize returns add up to the number of rows of the
\* input, for every chunking and interleaving.
C19_RowCountPreserved ==
  (pc = "returned" /\ NullRows(input, InputChunks) = {})
    => MaterializedRowCount(output, 1) = Cardinality(ChunkRows(input, InputChunks))

\* C19 witness: materialize returned for the column without NULLs, stored in
\* several chunks of which the last is shorter.
C19_Witness ==
  /\ pc = "returned"
  /\ NullRows(input, InputChunks) = {}
  /\ chunk_count(input) = 2
  /\ Len(get_segment(input, 0)) # Len(get_segment(input, 1))

\* C20: when sort is requested, the values of every segment that materialize
\* returns do not decrease; nothing relates segments of different chunks.
C20_SegmentsSorted ==
  (pc = "returned" /\ _sort)
    => \A c \in InputChunks :
         /\ output[c + 1].assigned
         /\ \A i \in 1..(Len(output[c + 1].segment) - 1) :
              output[c + 1].segment[i].value <= output[c + 1].segment[i + 1].value

\* C20 witness: materialize returned sorted segments; one chunk was stored
\* out of order, and the segment of chunk 0 ends with a larger value than
\* the segment of chunk 1 begins with.
C20_Witness ==
  /\ pc = "returned"
  /\ _sort
  /\ chunk_count(input) = 2
  /\ output[1].segment # materialized_values(get_segment(input, 0), 0, 1)
  /\ output[2].segment # << >>
  /\ output[1].segment[Len(output[1].segment)].value > output[2].segment[1].value

\* The number of rows of chunk c of the input.
ChunkRowCount(c) == Len(get_segment(input, c))

\* The materialized segment in slot c of the output.
OutputSegment(c) == output[c + 1].segment

\* The samples in the sample buffer of chunk c.
ChunkSamples(c) == subsamples[c + 1].samples

\* Chunk c has a row that is not NULL.
HasValue(c) == \E j \in 1..ChunkRowCount(c) : ~get_segment(input, c)[j].is_null

\* The sum of count(c) over the chunks c, c + 1, ... of the input.
RECURSIVE SumFrom(_, _)
SumFrom(count(_), c) ==
  IF c >= chunk_count(input) THEN 0 ELSE count(c) + SumFrom(count, c + 1)

\* min(samples_per_chunk, chunk_row_count)
ClippedSampleCount(c) == min(samples_per_chunk, ChunkRowCount(c))

SampleCount(c) == IF HasValue(c) THEN ClippedSampleCount(c) ELSE 0

C22_IndexAligned ==
  pc = "returned"
    => \A c \in InputChunks :
         /\ output[c + 1].assigned
         /\ \A i \in 1..Len(OutputSegment(c)) :
              LET entry == OutputSegment(c)[i]
              IN  /\ entry.row_id.chunk_id = c
                  /\ entry.row_id.chunk_offset \in 0..(ChunkRowCount(c) - 1)
                  /\ get_segment(input, c)[entry.row_id.chunk_offset + 1]
                       = Cell(entry.value)

\* C22 witness: materialize returned for several chunks; chunk 0 contributed
\* values, and a later chunk a value that is stored behind a NULL.
C22_Witness ==
  /\ pc = "returned"
  /\ OutputSegment(0) # << >>
  /\ \E c \in InputChunks \ {0} : \E i \in 1..Len(OutputSegment(c)) :
       OutputSegment(c)[i].row_id.chunk_offset >= i

\* C23: materialize gathers the samples and returns only when every one of
\* the chunk_count jobs is scheduled and done; what it returns are the slots
\* and sample buffers of finished jobs.
C23_ReturnAfterJoin ==
  /\ [](pc \in {"gather", "returned"}
          => /\ Len(jobs) = chunk_count(input)
             /\ \A c \in InputChunks : jobs[c + 1].pc = "done" /\ output[c + 1].assigned)
  /\ [](pc = "returned" => gathered_samples = gather(subsamples, 1))
  /\ [][pc' = "gather" =>
          (Len(jobs) = chunk_count(input) /\ \A c \in InputChunks : jobs[c + 1].pc = "done")]_vars

\* C23 witness: materialize returned the samples of several jobs.
C23_Witness ==
  /\ pc = "returned"
  /\ chunk_count(input) > 1
  /\ \E c, d \in InputChunks : c # d /\ ChunkSamples(c) # << >> /\ ChunkSamples(d) # << >>

\* The samples of the chunks other than c, in chunk order, from chunk d on.
RECURSIVE SamplesWithout(_, _)
SamplesWithout(c, d) ==
  IF d >= chunk_count(input)
    THEN << >>
    ELSE (IF d = c THEN << >> ELSE ChunkSamples(d)) \o SamplesWithout(c, d + 1)

\* C24: a chunk without rows contributes an empty segment that is present,
\* no NULL position and no sample; the returned samples are those of the
\* other chunks, and the steps of its job leave the PosList and the other
\* chunks' slots and sample buffers as they are.
C24_EmptyChunk ==
  /\ [](pc = "returned" =>
          \A c \in InputChunks :
            ChunkRowCount(c) = 0 =>
              /\ output[c + 1] = [assigned |-> TRUE, segment |-> << >>]
              /\ ChunkSamples(c) = << >>
              /\ \A i \in 1..Len(null_rows.slots) : null_rows.slots[i].chunk_id # c
              /\ gathered_samples = SamplesWithout(c, 0))
  /\ [][\A c \in InputChunks :
          (ChunkRowCount(c) = 0 /\ c < Len(jobs) /\ jobs'[c + 1] # jobs[c + 1])
            => /\ null_rows' = null_rows
               /\ \A d \in InputChunks \ {c} : output'[d + 1] = output[d + 1]
               /\ \A d \in 0..(Len(subsamples) - 1) :
                    d # c => subsamples'[d + 1] = subsamples[d + 1]]_vars

\* C24 witness: materialize returned for a table whose chunk 1 has no rows
\* while chunk 0 contributed values and samples.
C24_Witness ==
  /\ pc = "returned"
  /\ ChunkRowCount(1) = 0
  /\ OutputSegment(0) # << >>
  /\ gathered_samples # << >>

\* C25: the samples of a chunk are min(samples_per_chunk, segment_size)
\* values of its materialized segment, of which sample k (from 0) is the value
\* at index k * (segment_size / sample_count).
C25_SamplesBySegmentSize ==
  pc = "returned"
    => \A c \in InputChunks :
         LET segment_size == Len(OutputSegment(c))
             sample_count == min(samples_per_chunk, segment_size)
         IN  /\ Len(ChunkSamples(c)) = sample_count
             /\ \A k \in 0..(sample_count - 1) :
                  ChunkSamples(c)[k + 1]
                    = OutputSegment(c)[k * (segment_size \div sample_count) + 1].value

\* C26: when a chunk contributes more than one sample, the samples are the
\* values at positions of its segment that are a fixed stride >= 1 apart.
C26_EvenlySpaced ==
  pc = "returned"
    => \A c \in InputChunks :
         Len(ChunkSamples(c)) > 1
           => \E stride \in 1..Len(OutputSegment(c)) :
                /\ (Len(ChunkSamples(c)) - 1) * stride < Len(OutputSegment(c))
                /\ \A k \in 0..(Len(ChunkSamples(c)) - 1) :
                     ChunkSamples(c)[k + 1] = OutputSegment(c)[k * stride + 1].value

\* The entries of the segment in slot c that carry the RowID of offset j - 1.
EntriesOf(c, j) ==
  { i \in 1..Len(OutputSegment(c)) : OutputSegment(c)[i].row_id = RowID(c, j - 1) }

\* C27: the segment in slot c holds one MaterializedValue per row of chunk c
\* that is not NULL, with the row's RowID and value, and none for a NULL row;
\* without sort the entries are in ascending order of offset.
C27_OneEntryPerValue ==
  pc = "returned"
    => \A c \in InputChunks :
         /\ \A j \in 1..ChunkRowCount(c) :
              IF get_segment(input, c)[j].is_null
                THEN EntriesOf(c, j) = {}
                ELSE /\ Cardinality(EntriesOf(c, j)) = 1
                     /\ \A i \in EntriesOf(c, j) :
                          OutputSegment(c)[i].value = get_segment(input, c)[j].value
         /\ \A i \in 1..Len(OutputSegment(c)) :
              /\ OutputSegment(c)[i].row_id.chunk_id = c
              /\ OutputSegment(c)[i].row_id.chunk_offset \in 0..(ChunkRowCount(c) - 1)
         /\ ~_sort =>
              \A i \in 1..(Len(OutputSegment(c)) - 1) :
                OutputSegment(c)[i].row_id.chunk_offset
                  < OutputSegment(c)[i + 1].row_id.chunk_offset

\* C27 witness: materialize returned without sort; a chunk with NULL rows
\* and a row that is not NULL contributed a segment.
C27_Witness ==
  /\ pc = "returned"
  /\ ~_sort
  /\ \E c \in InputChunks :
       /\ Len(OutputSegment(c)) > 0
       /\ Len(OutputSegment(c)) < ChunkRowCount(c)

\* The offsets (from 1) of the rows of chunk c that are not NULL, ascending.
ValueOffsets(c) ==
  SelectSeq([ j \in 1..ChunkRowCount(c) |-> j ],
            LAMBDA j : ~get_segment(input, c)[j].is_null)

\* The rows of chunk c that are not NULL as MaterializedValues, in storage
\* order: what materialize without sort returns in slot c (C27).
StoredValues(c) ==
  [ i \in 1..Len(ValueOffsets(c)) |->
      MaterializedValue(RowID(c, ValueOffsets(c)[i] - 1),
                        get_segment(input, c)[ValueOffsets(c)[i]].value) ]

\* C28: with sort, every slot holds the entries that materialize without
\* sort returns in it, in some order, and materialize returns the same NULL
\* positions as without sort: the RowID of every NULL cell once if they
\* are collected, none if not.
C28_SortOnlyPermutes ==
  (pc = "returned" /\ _sort)
    => /\ \A c \in InputChunks :
            /\ ToSet(OutputSegment(c)) = ToSet(StoredValues(c))
            /\ Len(OutputSegment(c)) = Len(StoredValues(c))
       /\ ToSet(PosList(null_rows))
            = (IF _materialize_null THEN NullRows(input, InputChunks) ELSE {})
       /\ NoDuplicates(PosList(null_rows))

\* C29: a step changes slot c of the output, or the sample buffer of chunk
\* c, only as the step in which the job of chunk c finishes; the slot was
\* not assigned before, and that step leaves every other slot and sample
\* buffer as it was.  When materialize returns every slot is assigned.
C29_DisjointSlots ==
  /\ [][\A c \in InputChunks :
          /\ (output'[c + 1] # output[c + 1]
                \/ (c < Len(subsamples) /\ subsamples'[c + 1] # subsamples[c + 1]))
               => /\ c < Len(jobs)
                  /\ jobs[c + 1].pc = "segment_iterate"
                  /\ jobs'[c + 1].pc = "done"
                  /\ ~output[c + 1].assigned
                  /\ output'[c + 1].assigned
                  /\ \A d \in InputChunks \ {c} :
                       /\ output'[d + 1] = output[d + 1]
                       /\ d < Len(subsamples) => subsamples'[d + 1] = subsamples[d + 1]]_vars
  /\ [](pc = "returned" => \A c \in InputChunks : output[c + 1].assigned)

\* C29 witness: the jobs of two chunks have finished while a third job is
\* still running; both slots hold values, the running job's slot is empty.
C29_Witness ==
  \E c, d, e \in InputChunks :
    /\ c # d
    /\ c < Len(jobs) /\ d < Len(jobs) /\ e < Len(jobs)
    /\ jobs[c + 1].pc = "done" /\ OutputSegment(c) # << >>
    /\ jobs[d + 1].pc = "done" /\ OutputSegment(d) # << >>
    /\ jobs[e + 1].pc # "done" /\ ~output[e + 1].assigned

\* The samples the code takes from a segment for a chunk of which
\* samples_to_collect samples are requested.
SamplesOf(segment, samples_to_collect) ==
  IF segment = << >>
    THEN << >>
    ELSE [ n \in 1..samples_to_collect |->
             segment[(n - 1) * (Len(segment) \div samples_to_collect) + 1].value ]

\* C30: without NULL collection the PosList stays empty, and the segments
\* and samples that materialize returns are those of the rows that are not
\* NULL, whether NULL positions are collected or not.
C30_NullCollectionDisabled ==
  /\ ~_materialize_null => null_rows = [slots |-> << >>, size |-> 0]
  /\ pc = "returned"
       => /\ \A c \in InputChunks :
               /\ ~_sort => OutputSegment(c) = StoredValues(c)
               /\ _sort => OutputSegment(c) \in std_sort(StoredValues(c))
               /\ ChunkSamples(c) = SamplesOf(OutputSegment(c), ClippedSampleCount(c))
          /\ gathered_samples = SamplesWithout(chunk_count(input), 0)

\* C30 witness: materialize returned without NULL collection for a table
\* with NULL cells: no NULL position, and segments and samples of the values.
C30_Witness ==
  /\ pc = "returned"
  /\ ~_materialize_null
  /\ input = LongInput
  /\ PosList(null_rows) = << >>
  /\ OutputSegment(3) # << >>
  /\ gathered_samples # << >>

\* C34: a remove call that removes chunks walks all buckets and the NULL
\* positions once, however many chunks it removes.
C34_OnePassPerCall ==
  (call.op = "remove" /\ call.ret >= 1) => remove_passes(before, call.arg, 1) = 1

\* C35: every row of every indexed chunk occurs exactly once in the buckets
\* and the NULL positions together, and nothing else occurs there, also after
\* a removed chunk is added again and when a call names a chunk twice.
C35_EachRowOnce ==
  LET stored == AllRows(_map) \o NullPositions(_null_values)
  IN  /\ \A row_id \in ChunkRows(table, _indexed_chunk_ids) : Occurrences(stored, row_id) = 1
      /\ ToSet(stored) \subseteq ChunkRows(table, _indexed_chunk_ids)

\* C35 witness: an add named a chunk twice, right after a remove of that
\* chunk, and indexed its rows.
C35_Witness ==
  /\ call.op = "add"
  /\ call.follows = "remove"
  /\ call.ret > 0
  /\ \E i, j \in 1..Len(call.arg) : i # j /\ call.arg[i] = call.arg[j]
  /\ ChunkRows(table, ToSet(call.arg)) # {}

\* The chunk ids of arg, from element k on, that are not in seen, in the
\* order of their first occurrence.
RECURSIVE NewChunks(_, _, _)
NewChunks(arg, seen, k) ==
  IF k > Len(arg)
    THEN << >>
    ELSE IF arg[k] \in seen
           THEN NewChunks(arg, seen, k + 1)
           ELSE << arg[k] >> \o NewChunks(arg, seen \cup {arg[k]}, k + 1)

\* The RowIDs of the rows of chunk c whose cell is cell, in storage order.
MatchingRows(c, cell) ==
  LET offsets == SelectSeq([ j \in 1..Len(get_segment(table, c)) |-> j ],
                           LAMBDA j : get_segment(table, c)[j] = cell)
  IN  [ i \in 1..Len(offsets) |-> RowID(c, offsets[i] - 1) ]

\* MatchingRows of the chunks chunks[k], chunks[k + 1], ... one after another.
RECURSIVE MatchingRowsOf(_, _, _)
MatchingRowsOf(chunks, cell, k) ==
  IF k > Len(chunks)
    THEN << >>
    ELSE MatchingRows(chunks[k], cell) \o MatchingRowsOf(chunks, cell, k + 1)

\* The RowIDs the index idx holds for cell: the value's bucket, or the NULL
\* positions.
StoredFor(idx, cell) ==
  IF cell.is_null THEN NullPositions(idx.nulls) ELSE Bucket(idx.map, cell.value)

\* C36: an add appends to every bucket, and to the NULL positions, the RowIDs
\* of the chunks it indexes, chunk after chunk in the order the call names
\* them and in storage order within a chunk; a remove deletes the RowIDs of
\* the chunks it names and keeps the others in their order.
C36_InsertionOrder ==
  \A cell \in { Cell(v) : v \in Values } \cup { NullCell } :
    /\ call.op \in AddOps
         => StoredFor(This, cell)
              = StoredFor(before, cell)
                  \o MatchingRowsOf(NewChunks(call.arg, before.ids, 1), cell, 1)
    /\ call.op = "remove"
         => StoredFor(This, cell)
              = SelectSeq(StoredFor(before, cell),
                          LAMBDA row_id : row_id.chunk_id \notin ToSet(call.arg))

\* C36 witness: after a remove a bucket holds RowIDs of a chunk with a larger
\* id in front of RowIDs of a chunk with a smaller id, and it lost RowIDs.
C36_Witness ==
  /\ call.op = "remove"
  /\ call.ret > 0
  /\ \E v \in Values :
       /\ Len(Bucket(_map, v)) < Len(Bucket(before.map, v))
       /\ \E i, j \in 1..Len(Bucket(_map, v)) :
            i < j /\ Bucket(_map, v)[i].chunk_id > Bucket(_map, v)[j].chunk_id

\* The index idx without an entry of the NULL map that holds no RowID.
WithoutEmptyNullEntry(idx) ==
  Index(idx.ids, idx.map, IF NullPositions(idx.nulls) = << >> THEN << >> ELSE idx.nulls)

\* C37: memory_consumption() is determined by the indexed chunks, the buckets
\* and the NULL positions, not by the calls that led there: it equals that of
\* an index with the same chunks, buckets and NULL positions that never held
\* a NULL entry it lost, and a remove that takes the index back to no chunks
\* (add(C) on an empty index, then remove(C)) takes memory_consumption() back
\* to that of the empty index.
C37_MemoryOfContents ==
  /\ memory_consumption(This) = memory_consumption(WithoutEmptyNullEntry(This))
  /\ (call.op = "remove" /\ get_indexed_chunk_ids(This) = {})
       => memory_consumption(This) = memory_consumption(EmptyIndex)

\* C38: the NULL map is empty if the index holds no NULL position, and has
\* one element, key true with a vector that is not empty, if it holds one.
C38_NullMapShape ==
  IF NullRows(table, _indexed_chunk_ids) = {}
    THEN _null_values = << >>
    ELSE /\ Len(_null_values) = 1
         /\ _null_values[1].first = TRUE
         /\ _null_values[1].second # << >>

\* The samples of chunk c as the input and the options alone determine them:
\* taken from the chunk's rows that are not NULL, in storage order or, with
\* sort, in ascending order of value.
ExpectedChunkSamples(c) ==
  SamplesOf(IF _sort THEN CHOOSE sorted \in std_sort(StoredValues(c)) : TRUE
                     ELSE StoredValues(c),
            ClippedSampleCount(c))

\* ExpectedChunkSamples of the chunks d, d + 1, ... one after another.
RECURSIVE ExpectedSamplesFrom(_)
ExpectedSamplesFrom(d) ==
  IF d >= chunk_count(input)
    THEN << >>
    ELSE ExpectedChunkSamples(d) \o ExpectedSamplesFrom(d + 1)

\* C31: the samples materialize returns are the sample buffers of the chunks
\* one after another in ascending chunk id, and they are the sequence that
\* the input and the options determine, in whatever order the jobs ran and
\* finished.
C31_SamplesDeterministic ==
  pc = "returned"
    => /\ gathered_samples = SamplesWithout(chunk_count(input), 0)
       /\ gathered_samples = ExpectedSamplesFrom(0)

\* C31 witness: materialize returned the differing samples of two chunks,
\* and the jobs did not run in chunk order: a job of a chunk with a larger id
\* appended its NULL position before a job of a chunk with a smaller id.
C31_Witness ==
  /\ pc = "returned"
  /\ \E c, d \in InputChunks :
       /\ c < d
       /\ ChunkSamples(c) # << >>
       /\ ChunkSamples(d) # << >>
       /\ ChunkSamples(c) # ChunkSamples(d)
  /\ \E i, j \in 1..null_rows.size :
       i < j /\ null_rows.slots[i].chunk_id > null_rows.slots[j].chunk_id

\* Every index of sample_positions(segment_size, samples_to_collect) is an
\* index of the segment, and an empty segment is not read.
PositionsInBounds(segment_size, samples_to_collect) ==
  LET positions == sample_positions(segment_size, samples_to_collect)
  IN  /\ \A n \in 1..Len(positions) : positions[n] >= 0 /\ positions[n] < segment_size
      /\ segment_size = 0 => positions = << >>

\* C32: every index at which a sample is read is an index of the chunk's
\* materialized segment, and no sample is read from an empty segment: for
\* every chunk of the input with the sample count materialize requests for
\* it, and for every chunk size up to LongChunkSize with every number of NULL
\* rows.
C32_SampleIndicesInBounds ==
  /\ \A c \in InputChunks :
       PositionsInBounds(Len(StoredValues(c)), ClippedSampleCount(c))
  /\ \A c \in 0..(Len(subsamples) - 1) :
       PositionsInBounds(Len(StoredValues(c)), subsamples[c + 1].samples_to_collect)
  /\ \A rows \in 0..LongChunkSize : \A nulls \in 0..rows :
       PositionsInBounds(rows - nulls, min(samples_per_chunk, rows))

\* C32 witness: two jobs took their samples, one from a segment shorter than
\* the number of samples requested because of a NULL row, one from a segment
\* longer than the number of samples requested.
C32_Witness ==
  \E c, d \in 0..(Len(jobs) - 1) :
    /\ jobs[c + 1].pc = "done"
    /\ ChunkSamples(c) # << >>
    /\ Len(OutputSegment(c)) < subsamples[c + 1].samples_to_collect
    /\ jobs[d + 1].pc = "done"
    /\ ChunkSamples(d) # << >>
    /\ Len(OutputSegment(d)) > subsamples[d + 1].samples_to_collect

\* C33: materialize schedules one job per chunk, chunk_count jobs in all;
\* it goes on behind wait_for_tasks only when all of them are scheduled and
\* each of them is done, and it waits for no other job; and if the scheduler
\* keeps running the jobs, materialize eventually returns, unless the
\* process ends in a job, which then does not run to completion.
C33_ReturnsWhenTasksComplete ==
  /\ [](/\ Len(jobs) = loop_chunk_id
        /\ Len(jobs) <= chunk_count(input)
        /\ Len(subsamples) = Len(jobs))
  /\ [][/\ Len(jobs') \in {Len(jobs), Len(jobs) + 1}
        /\ pc' = "gather" =>
             /\ Len(jobs) = chunk_count(input)
             /\ \A c \in 0..(Len(jobs) - 1) : jobs[c + 1].pc = "done"
        /\ pc' = "returned" =>
             /\ Len(jobs) = chunk_count(input)
             /\ \A c \in 0..(Len(jobs) - 1) : jobs[c + 1].pc = "done"]_vars
  /\ <>(pc \in {"returned", "crashed"})

\* C33 witness: materialize returned after it scheduled three or more jobs,
\* two of which appended NULL positions.
C33_Witness ==
  /\ pc = "returned"
  /\ Len(jobs) = chunk_count(input)
  /\ Len(jobs) >= 3
  /\ \E i, j \in 1..null_rows.size : null_rows.slots[i].chunk_id # null_rows.slots[j].chunk_id

====
